---- MODULE Spec2Model ----
(***************************************************************************)
(* Model of the Transcription repository.                                  *)
(*                                                                         *)
(*   teams_transcription.py : the streaming pipeline (capture callback,    *)
(*                            transcription worker thread, controller).    *)
(*   mp4_transcription.py   : detect_speakers, the pause heuristic;        *)
(*                            process_mp4 and save_transcript.             *)
(*   batch_mp4_processor.py : process_files and print_summary.             *)
(*                                                                         *)
(* Audio is modelled at byte granularity without enumerating bytes: a      *)
(* bytes object is a sequence of fragments [id, lo, hi], fragment          *)
(* [id, lo, hi] standing for bytes lo..hi-1 of captured frame number id.   *)
(* Lengths, concatenation and slicing are computed on that form, with the  *)
(* program's own constants (16 kHz, 1024-sample frames, 3 s buffer).       *)
(***************************************************************************)
EXTENDS Integers, Sequences, FiniteSets, TLC

VARIABLES
    is_recording,     \* self.is_recording
    audio_queue,      \* self.audio_queue: frame ids, oldest first
    audio_buffer,     \* transcription_worker's local audio_buffer
    out_file,         \* content of self.output_file, one record per write
    m_pc,             \* position of start_recording (main thread)
    w_pc,             \* position of transcription_worker (worker thread)
    cb_pc,            \* position of audio_callback (audio thread)
    stream_active,    \* the PyAudio stream delivers callbacks
    frames_made,      \* number of frames the callback accepted so far
    dequeued,         \* history: frame ids in the order the worker got them
    asr_calls,        \* history: one record per model.transcribe call
    asr_errors,       \* number of model.transcribe calls that raised
    write_errors,     \* number of failed appends to the output file
    interrupts,       \* number of KeyboardInterrupts delivered to main
    segments,         \* detect_speakers: the caller's input list
    min_pause,        \* detect_speakers: the min_pause argument
    speaker_segments, \* detect_speakers: the returned list
    d_pc,             \* detect_speakers: "idle" | "returned"
    file_paths,       \* process_files: the file_paths argument
    include_speakers, \* process_files: the include_speakers argument
    include_timestamps, \* process_files: the include_timestamps argument
    keep_audio,       \* process_files: the keep_audio argument
    loop_i,           \* process_files: i of enumerate(file_paths, 1)
    processed_files,  \* self.processed_files: (mp4_path, output_file) pairs
    failed_files,     \* self.failed_files: (mp4_path, str(e)) pairs
    b_pc,             \* position of process_files and of what it calls
    exc,              \* the exception in flight, "none" if there is none
    audio_path,       \* process_mp4's local audio_path, "none" for None
    temp_audio,       \* temporary audio files that exist on the disk
    result,           \* process_mp4's local result: result['segments']
    report_segments,  \* save_transcript's local segments
    seg_k,            \* save_transcript: position in "for segment in segments"
    report,           \* the file at save_transcript's output_file path
    summary,          \* what print_summary printed
    attempted,        \* history: paths process_mp4 was called with
    raised            \* history: the errors process_mp4 raised

stream_vars == <<is_recording, audio_queue, audio_buffer, out_file, m_pc, w_pc,
                 cb_pc, stream_active, frames_made, dequeued, asr_calls,
                 asr_errors, write_errors, interrupts>>
spk_vars == <<segments, min_pause, speaker_segments, d_pc>>
batch_vars == <<file_paths, include_speakers, include_timestamps, keep_audio,
                loop_i, processed_files, failed_files, b_pc, exc, audio_path,
                temp_audio, result, report_segments, seg_k, report, summary,
                attempted, raised>>
vars == <<stream_vars, spk_vars, batch_vars>>

----------------------------------------------------------------------------
(* Bounds of the model.                                                    *)

\* frames the capture callback accepts in one session
MaxFrames == 86
\* frames waiting in the (unbounded) queue.Queue at any time
MaxQueue == 2
\* model.transcribe calls that raise in one session
MaxAsrErrors == 1
\* failed appends to the output file in one session
MaxWriteErrors == 1

----------------------------------------------------------------------------
(* Program constants of TeamsTranscriptionApp.                             *)

chunk_size == 1024
sample_rate == 16000
channels == 1
\* pyaudio.paInt16: two bytes per sample
sample_width == 2
\* buffer_duration = 3.0
buffer_duration == 3
\* buffer_size = int(self.sample_rate * buffer_duration * 2)
buffer_size == sample_rate * buffer_duration * 2
\* overlap = buffer_size // 4
overlap == buffer_size \div 4
\* in_data of one callback: frames_per_buffer * channels * 2 bytes
frame_bytes == chunk_size * channels * sample_width

----------------------------------------------------------------------------
(* bytes objects.                                                          *)

RECURSIVE BufLen(_)
\* len(b)
BufLen(b) ==
    IF b = <<>> THEN 0 ELSE (Head(b).hi - Head(b).lo) + BufLen(Tail(b))

RECURSIVE DropBytes(_, _)
\* b[k:] for 0 <= k <= len(b)
DropBytes(b, k) ==
    IF k = 0 \/ b = <<>> THEN b
    ELSE LET h == Head(b)
             l == h.hi - h.lo
         IN  IF l <= k THEN DropBytes(Tail(b), k - l)
             ELSE <<[h EXCEPT !.lo = h.lo + k]>> \o Tail(b)

\* b[-n:]  (Python: the whole of b when n = 0 or n >= len(b))
bytes_tail(b, n) ==
    IF n = 0 \/ n >= BufLen(b) THEN b ELSE DropBytes(b, BufLen(b) - n)

\* in_data of frame number id
frame_data(id) == <<[id |-> id, lo |-> 0, hi |-> frame_bytes]>>

\* audio_buffer += audio_data
buffer_append(b, data) == b \o data

\* audio_buffer = audio_buffer[-overlap:]
buffer_cut(b) == bytes_tail(b, overlap)

\* queue.Queue.put / get: FIFO
queue_put(q, id) == Append(q, id)
LifoGet(q) == [item |-> q[Len(q)], rest |-> SubSeq(q, 1, Len(q) - 1)]
queue_get(q) == [item |-> Head(q), rest |-> Tail(q)]

\* len(audio_np) < self.sample_rate * 0.5, with len(audio_np) = len(audio_data) / 2
too_short(b) == 2 * (BufLen(b) \div sample_width) < sample_rate

\* np.frombuffer(audio_data, dtype=np.int16) raises on a size that is no
\* multiple of the element size
frombuffer_raises(b) == BufLen(b) % sample_width # 0

Header == [kind |-> "header", call |-> 0]
Footer == [kind |-> "footer", call |-> 0]
Line(c) == [kind |-> "line", call |-> c]

----------------------------------------------------------------------------
StreamInit ==
    /\ is_recording = FALSE
    /\ audio_queue = <<>>
    /\ audio_buffer = <<>>
    /\ out_file = <<>>
    /\ m_pc = "start"
    /\ w_pc = "idle"
    /\ cb_pc = "idle"
    /\ stream_active = FALSE
    /\ frames_made = 0
    /\ dequeued = <<>>
    /\ asr_calls = <<>>
    /\ asr_errors = 0
    /\ write_errors = 0
    /\ interrupts = 0

SpkIdle ==
    /\ segments = <<>>
    /\ min_pause = 0
    /\ speaker_segments = <<>>
    /\ d_pc = "idle"

NoReport == [exists |-> FALSE, content |-> <<>>]
NoSummary == [printed |-> FALSE, success |-> 0, failure |-> 0,
              succeeded |-> <<>>, failed |-> <<>>]

\* BatchMP4Processor.__init__ and the locals of a call not yet made
BatchFresh ==
    /\ loop_i = 0
    /\ processed_files = <<>>
    /\ failed_files = <<>>
    /\ exc = "none"
    /\ audio_path = "none"
    /\ temp_audio = {}
    /\ result = <<>>
    /\ report_segments = <<>>
    /\ seg_k = 0
    /\ report = NoReport
    /\ summary = NoSummary
    /\ attempted = <<>>
    /\ raised = <<>>

BatchIdle ==
    /\ BatchFresh
    /\ file_paths = <<>>
    /\ include_speakers = FALSE
    /\ include_timestamps = FALSE
    /\ keep_audio = FALSE
    /\ b_pc = "idle"

Init == StreamInit /\ SpkIdle /\ BatchIdle

----------------------------------------------------------------------------
(* audio_callback, run by the audio thread for each captured frame.        *)

\* if self.is_recording:  -- a frame arriving while not recording is returned
\* untouched; the callback is invoked only while the stream is active.
CbEnter ==
    /\ stream_active
    /\ cb_pc = "idle"
    /\ is_recording
    /\ frames_made < MaxFrames
    /\ Len(audio_queue) < MaxQueue
    /\ frames_made' = frames_made + 1
    /\ cb_pc' = "put"
    /\ UNCHANGED <<is_recording, audio_queue, audio_buffer, out_file, m_pc, w_pc,
                   stream_active, dequeued, asr_calls, asr_errors, write_errors,
                   interrupts>>
    /\ UNCHANGED <<spk_vars, batch_vars>>

\* the put of a queue.Queue(maxsize=1): it waits while the queue is full
CbPutBounded ==
    /\ cb_pc = "put"
    /\ Len(audio_queue) < 1
    /\ audio_queue' = queue_put(audio_queue, frames_made)
    /\ cb_pc' = "idle"
    /\ UNCHANGED <<is_recording, audio_buffer, out_file, m_pc, w_pc,
                   stream_active, frames_made, dequeued, asr_calls, asr_errors,
                   write_errors, interrupts>>
    /\ UNCHANGED <<spk_vars, batch_vars>>

\* self.audio_queue.put(in_data); return
CbPut ==
    /\ cb_pc = "put"
    /\ audio_queue' = queue_put(audio_queue, frames_made)
    /\ cb_pc' = "idle"
    /\ UNCHANGED <<is_recording, audio_buffer, out_file, m_pc, w_pc,
                   stream_active, frames_made, dequeued, asr_calls, asr_errors,
                   write_errors, interrupts>>
    /\ UNCHANGED <<spk_vars, batch_vars>>

----------------------------------------------------------------------------
(* transcription_worker, run by the worker thread.                         *)

SetLast(calls, field, v) == [calls EXCEPT ![Len(calls)][field] = v]

\* while self.is_recording or not self.audio_queue.empty():  -- left operand
WWhile ==
    /\ w_pc = "while"
    /\ w_pc' = IF is_recording THEN "body" ELSE "while_q"
    /\ UNCHANGED <<is_recording, audio_queue, audio_buffer, out_file, m_pc, cb_pc,
                   stream_active, frames_made, dequeued, asr_calls, asr_errors,
                   write_errors, interrupts>>
    /\ UNCHANGED <<spk_vars, batch_vars>>

\* a loop condition that also holds while a partial window is buffered
WWhileQWaitsForWindow ==
    /\ w_pc = "while_q"
    /\ w_pc' = IF audio_queue # <<>> \/ audio_buffer # <<>> THEN "body" ELSE "done"
    /\ UNCHANGED <<is_recording, audio_queue, audio_buffer, out_file, m_pc, cb_pc,
                   stream_active, frames_made, dequeued, asr_calls, asr_errors,
                   write_errors, interrupts>>
    /\ UNCHANGED <<spk_vars, batch_vars>>

\* ... or not self.audio_queue.empty()  -- right operand; false ends the thread
WWhileQ ==
    /\ w_pc = "while_q"
    /\ w_pc' = IF audio_queue # <<>> THEN "body" ELSE "done"
    /\ UNCHANGED <<is_recording, audio_queue, audio_buffer, out_file, m_pc, cb_pc,
                   stream_active, frames_made, dequeued, asr_calls, asr_errors,
                   write_errors, interrupts>>
    /\ UNCHANGED <<spk_vars, batch_vars>>

\* a loop body that hands the buffer to self.model.transcribe after every
\* frame, with neither the length test of the loop nor transcribe_audio_chunk
WBodyUnguarded ==
    /\ w_pc = "body"
    /\ LET got == audio_queue # <<>>
           g   == queue_get(audio_queue)
           buf == IF got THEN buffer_append(audio_buffer, frame_data(g.item))
                  ELSE audio_buffer
       IN  /\ audio_queue' = IF got THEN g.rest ELSE audio_queue
           /\ dequeued' = IF got THEN Append(dequeued, g.item) ELSE dequeued
           /\ audio_buffer' = buf
           /\ asr_calls' = Append(asr_calls,
                 [window |-> buf, result |-> "pending", write |-> "none"])
           /\ w_pc' = "asr"
    /\ UNCHANGED <<is_recording, out_file, m_pc, cb_pc, stream_active, frames_made,
                   asr_errors, write_errors, interrupts>>
    /\ UNCHANGED <<spk_vars, batch_vars>>

\* The loop body up to the call of the model: the worker is the queue's only
\* consumer, so a non-empty queue stays non-empty until its get(); the length
\* test and the entry of transcribe_audio_chunk touch the worker's data only.
\*   if not self.audio_queue.empty(): audio_buffer += self.audio_queue.get()
\*   if len(audio_buffer) >= buffer_size: text = transcribe_audio_chunk(...)
\* transcribe_audio_chunk returns None without calling the model when the
\* conversion raises or the audio is under 0.5 s; the buffer is then cut.
WBody ==
    /\ w_pc = "body"
    /\ LET got == audio_queue # <<>>
           g   == queue_get(audio_queue)
           buf == IF got THEN buffer_append(audio_buffer, frame_data(g.item))
                  ELSE audio_buffer
       IN  /\ audio_queue' = IF got THEN g.rest ELSE audio_queue
           /\ dequeued' = IF got THEN Append(dequeued, g.item) ELSE dequeued
           /\ IF BufLen(buf) >= buffer_size
              THEN IF frombuffer_raises(buf) \/ too_short(buf)
                   THEN /\ audio_buffer' = buffer_cut(buf)
                        /\ asr_calls' = asr_calls
                        /\ w_pc' = "while"
                   ELSE /\ audio_buffer' = buf
                        /\ asr_calls' = Append(asr_calls,
                              [window |-> buf, result |-> "pending", write |-> "none"])
                        /\ w_pc' = "asr"
              ELSE /\ audio_buffer' = buf
                   /\ asr_calls' = asr_calls
                   /\ w_pc' = "while"
    /\ UNCHANGED <<is_recording, out_file, m_pc, cb_pc, stream_active, frames_made,
                   asr_errors, write_errors, interrupts>>
    /\ UNCHANGED <<spk_vars, batch_vars>>

\* result = self.model.transcribe(...) returns recognized text: `if text:` holds
WAsrText ==
    /\ w_pc = "asr"
    /\ asr_calls' = SetLast(asr_calls, "result", "text")
    /\ w_pc' = "write"
    /\ UNCHANGED <<is_recording, audio_queue, audio_buffer, out_file, m_pc, cb_pc,
                   stream_active, frames_made, dequeued, asr_errors, write_errors,
                   interrupts>>
    /\ UNCHANGED <<spk_vars, batch_vars>>

\* model.transcribe returns blank text: transcribe_audio_chunk returns None,
\* `if text:` is skipped and the buffer is cut to the overlap
WAsrEmpty ==
    /\ w_pc = "asr"
    /\ asr_calls' = SetLast(asr_calls, "result", "empty")
    /\ audio_buffer' = buffer_cut(audio_buffer)
    /\ w_pc' = "while"
    /\ UNCHANGED <<is_recording, audio_queue, out_file, m_pc, cb_pc, stream_active,
                   frames_made, dequeued, asr_errors, write_errors, interrupts>>
    /\ UNCHANGED <<spk_vars, batch_vars>>

\* the exception of the model leaves transcribe_audio_chunk and is caught by
\* the loop's own handler, which skips the cut of the buffer
WAsrErrorEscapes ==
    /\ w_pc = "asr"
    /\ asr_errors < MaxAsrErrors
    /\ asr_errors' = asr_errors + 1
    /\ asr_calls' = SetLast(asr_calls, "result", "error")
    /\ w_pc' = "while"
    /\ UNCHANGED <<is_recording, audio_queue, audio_buffer, out_file, m_pc, cb_pc,
                   stream_active, frames_made, dequeued, write_errors, interrupts>>
    /\ UNCHANGED <<spk_vars, batch_vars>>

\* model.transcribe raises: transcribe_audio_chunk logs and returns None,
\* `if text:` is skipped and the buffer is cut to the overlap
WAsrError ==
    /\ w_pc = "asr"
    /\ asr_errors < MaxAsrErrors
    /\ asr_errors' = asr_errors + 1
    /\ asr_calls' = SetLast(asr_calls, "result", "error")
    /\ audio_buffer' = buffer_cut(audio_buffer)
    /\ w_pc' = "while"
    /\ UNCHANGED <<is_recording, audio_queue, out_file, m_pc, cb_pc, stream_active,
                   frames_made, dequeued, write_errors, interrupts>>
    /\ UNCHANGED <<spk_vars, batch_vars>>

\* with open(self.output_file, 'a') as f: f.write(output_line); f.flush()
\* then the buffer is cut to the overlap
WWrite ==
    /\ w_pc = "write"
    /\ out_file' = Append(out_file, Line(Len(asr_calls)))
    /\ asr_calls' = SetLast(asr_calls, "write", "ok")
    /\ audio_buffer' = buffer_cut(audio_buffer)
    /\ w_pc' = "while"
    /\ UNCHANGED <<is_recording, audio_queue, m_pc, cb_pc, stream_active,
                   frames_made, dequeued, asr_errors, write_errors, interrupts>>
    /\ UNCHANGED <<spk_vars, batch_vars>>

\* the exception of the write leaves the loop and ends the worker thread
WWriteFailFatal ==
    /\ w_pc = "write"
    /\ write_errors < MaxWriteErrors
    /\ write_errors' = write_errors + 1
    /\ asr_calls' = SetLast(asr_calls, "write", "fail")
    /\ w_pc' = "done"
    /\ UNCHANGED <<is_recording, audio_queue, audio_buffer, out_file, m_pc, cb_pc,
                   stream_active, frames_made, dequeued, asr_errors, interrupts>>
    /\ UNCHANGED <<spk_vars, batch_vars>>

\* the open or the write raises: `except Exception` of the loop logs it, the
\* cut of the buffer is skipped and the loop goes on
WWriteFail ==
    /\ w_pc = "write"
    /\ write_errors < MaxWriteErrors
    /\ write_errors' = write_errors + 1
    /\ asr_calls' = SetLast(asr_calls, "write", "fail")
    /\ w_pc' = "while"
    /\ UNCHANGED <<is_recording, audio_queue, audio_buffer, out_file, m_pc, cb_pc,
                   stream_active, frames_made, dequeued, asr_errors, interrupts>>
    /\ UNCHANGED <<spk_vars, batch_vars>>

----------------------------------------------------------------------------
(* start_recording, run by the main thread.                                *)

\* the header is written: open(self.output_file, 'w') truncates the file
MHeader ==
    /\ m_pc = "start"
    /\ out_file' = <<Header>>
    /\ m_pc' = "record"
    /\ UNCHANGED <<is_recording, audio_queue, audio_buffer, w_pc, cb_pc,
                   stream_active, frames_made, dequeued, asr_calls, asr_errors,
                   write_errors, interrupts>>
    /\ UNCHANGED <<spk_vars, batch_vars>>

\* PyAudio(), the device lookup or the header write raises:
\* except Exception: log; self.is_recording = False
MHeaderFail ==
    /\ m_pc = "start"
    /\ is_recording' = FALSE
    /\ m_pc' = "error"
    /\ UNCHANGED <<audio_queue, audio_buffer, out_file, w_pc, cb_pc,
                   stream_active, frames_made, dequeued, asr_calls, asr_errors,
                   write_errors, interrupts>>
    /\ UNCHANGED <<spk_vars, batch_vars>>

\* self.is_recording = True; transcription_thread.start()
MRecord ==
    /\ m_pc = "record"
    /\ is_recording' = TRUE
    /\ w_pc' = "while"
    /\ m_pc' = "open"
    /\ UNCHANGED <<audio_queue, audio_buffer, out_file, cb_pc, stream_active,
                   frames_made, dequeued, asr_calls, asr_errors, write_errors,
                   interrupts>>
    /\ UNCHANGED <<spk_vars, batch_vars>>

\* stream = p.open(...); stream.start_stream(); the main loop is entered
MOpen ==
    /\ m_pc = "open"
    /\ stream_active' = TRUE
    /\ m_pc' = "loop"
    /\ UNCHANGED <<is_recording, audio_queue, audio_buffer, out_file, w_pc, cb_pc,
                   frames_made, dequeued, asr_calls, asr_errors, write_errors,
                   interrupts>>
    /\ UNCHANGED <<spk_vars, batch_vars>>

\* p.open raises (e.g. an invalid device index):
\* except Exception: log; self.is_recording = False
MOpenFail ==
    /\ m_pc = "open"
    /\ is_recording' = FALSE
    /\ m_pc' = "error"
    /\ UNCHANGED <<audio_queue, audio_buffer, out_file, w_pc, cb_pc,
                   stream_active, frames_made, dequeued, asr_calls, asr_errors,
                   write_errors, interrupts>>
    /\ UNCHANGED <<spk_vars, batch_vars>>

\* while stream.is_active(): sleep  -- left by KeyboardInterrupt only (the
\* callback always returns paContinue); the interrupt is caught
MInterrupt ==
    /\ m_pc = "loop"
    /\ interrupts' = interrupts + 1
    /\ m_pc' = "stop"
    /\ UNCHANGED <<is_recording, audio_queue, audio_buffer, out_file, w_pc, cb_pc,
                   stream_active, frames_made, dequeued, asr_calls, asr_errors,
                   write_errors>>
    /\ UNCHANGED <<spk_vars, batch_vars>>

\* self.is_recording = False
MStop ==
    /\ m_pc = "stop"
    /\ is_recording' = FALSE
    /\ m_pc' = "stop_stream"
    /\ UNCHANGED <<audio_queue, audio_buffer, out_file, w_pc, cb_pc,
                   stream_active, frames_made, dequeued, asr_calls, asr_errors,
                   write_errors, interrupts>>
    /\ UNCHANGED <<spk_vars, batch_vars>>

\* stream.stop_stream(); stream.close(); p.terminate()  -- returns once the
\* callback in progress, if any, has returned
MStopStream ==
    /\ m_pc = "stop_stream"
    /\ cb_pc = "idle"
    /\ stream_active' = FALSE
    /\ m_pc' = "join"
    /\ UNCHANGED <<is_recording, audio_queue, audio_buffer, out_file, w_pc, cb_pc,
                   frames_made, dequeued, asr_calls, asr_errors, write_errors,
                   interrupts>>
    /\ UNCHANGED <<spk_vars, batch_vars>>

\* transcription_thread.join(timeout=10) returns because the worker ended
MJoin ==
    /\ m_pc = "join"
    /\ w_pc = "done"
    /\ m_pc' = "footer"
    /\ UNCHANGED <<is_recording, audio_queue, audio_buffer, out_file, w_pc, cb_pc,
                   stream_active, frames_made, dequeued, asr_calls, asr_errors,
                   write_errors, interrupts>>
    /\ UNCHANGED <<spk_vars, batch_vars>>

\* transcription_thread.join(timeout=10) returns because 10 s have passed with
\* the worker still running; the return value is not looked at
MJoinTimeout ==
    /\ m_pc = "join"
    /\ w_pc # "done"
    /\ m_pc' = "footer"
    /\ UNCHANGED <<is_recording, audio_queue, audio_buffer, out_file, w_pc, cb_pc,
                   stream_active, frames_made, dequeued, asr_calls, asr_errors,
                   write_errors, interrupts>>
    /\ UNCHANGED <<spk_vars, batch_vars>>

\* the footer is appended; start_recording returns
MFooter ==
    /\ m_pc = "footer"
    /\ out_file' = Append(out_file, Footer)
    /\ m_pc' = "done"
    /\ UNCHANGED <<is_recording, audio_queue, audio_buffer, w_pc, cb_pc,
                   stream_active, frames_made, dequeued, asr_calls, asr_errors,
                   write_errors, interrupts>>
    /\ UNCHANGED <<spk_vars, batch_vars>>

\* the footer write raises: except Exception: log; self.is_recording = False
MFooterFail ==
    /\ m_pc = "footer"
    /\ is_recording' = FALSE
    /\ m_pc' = "error"
    /\ UNCHANGED <<audio_queue, audio_buffer, out_file, w_pc, cb_pc,
                   stream_active, frames_made, dequeued, asr_calls, asr_errors,
                   write_errors, interrupts>>
    /\ UNCHANGED <<spk_vars, batch_vars>>

\* a second Ctrl+C while start_recording is past its main loop (is_recording
\* already False): KeyboardInterrupt is no Exception, so `except Exception`
\* does not catch it and start_recording is left without the remaining steps
MInterruptAgain ==
    /\ m_pc \in {"stop_stream", "join", "footer"}
    /\ interrupts' = interrupts + 1
    /\ m_pc' = "killed"
    /\ UNCHANGED <<is_recording, audio_queue, audio_buffer, out_file, w_pc, cb_pc,
                   stream_active, frames_made, dequeued, asr_calls, asr_errors,
                   write_errors>>
    /\ UNCHANGED <<spk_vars, batch_vars>>

----------------------------------------------------------------------------
Next ==
    \/ CbEnter \/ CbPut
    \/ WWhile \/ WWhileQ \/ WBody
    \/ WAsrText \/ WAsrEmpty \/ WAsrError
    \/ WWrite \/ WWriteFail
    \/ MHeader \/ MHeaderFail \/ MRecord \/ MOpen \/ MOpenFail
    \/ MInterrupt \/ MStop \/ MStopStream \/ MJoin \/ MJoinTimeout
    \/ MFooter \/ MFooterFail \/ MInterruptAgain

Spec == Init /\ [][Next]_vars

\* Scheduling: the worker thread is not starved (each step of its loop is
\* taken once it stays possible), every model.transcribe call returns or
\* raises, and every file write returns or raises: the worker does not stay
\* inside the write for ever.
Fairness ==
    /\ WF_vars(WWhile)
    /\ WF_vars(WWhileQ)
    /\ WF_vars(WBody)
    /\ WF_vars(WAsrText \/ WAsrEmpty \/ WAsrError)
    /\ []<>(w_pc # "write")

SpecLive == Init /\ [][Next]_vars /\ Fairness

----------------------------------------------------------------------------
(* MP4TranscriptionApp.detect_speakers.                                    *)
(*                                                                         *)
(* A segment is a dict with the keys start, end and text; times are        *)
(* counted in half seconds, so that 1.5 s is 3.  The caller's list is the  *)
(* variable segments; what the call does to it is part of the result.      *)

\* segments of the bounded input space: times 0..MaxTime
MaxTime == 1
\* longest input list of the bounded input space
MaxSegs == 3
\* largest min_pause of the bounded input space
MaxPause == 2

Texts == {"a", "b"}

\* TimedSegment values of the input space: start <= end
SegmentSet ==
    {seg \in [start : 0..MaxTime, end : 0..MaxTime, text : Texts] :
        seg.start <= seg.end}

RECURSIVE SeqsUpTo(_, _)
SeqsUpTo(S, n) ==
    IF n = 0 THEN {<<>>}
    ELSE LET shorter == SeqsUpTo(S, n - 1)
         IN  shorter \cup {Append(q, x) : q \in {r \in shorter : Len(r) = n - 1}, x \in S}

\* [(0,1),(1.5,2),(5,6)] in half seconds
ExampleSegments ==
    << [start |-> 0,  end |-> 2,  text |-> "a"],
       [start |-> 3,  end |-> 4,  text |-> "b"],
       [start |-> 10, end |-> 12, text |-> "a"] >>

\* min_pause = 2.0 and min_pause = 10.0 in half seconds
ExamplePauses == {4, 20}

\* pause_duration >= min_pause, for i > 0 (1-based here: i > 1)
StrictPause(segs, i, mp) == segs[i].start - segs[i - 1].end > mp
speaker_change(segs, i, mp) == segs[i].start - segs[i - 1].end >= mp

\* segment_with_speaker = segment.copy()
\* segment_with_speaker['speaker'] = current_speaker
\* The result names the new dict and the caller's list after the two lines.
TagInPlace(segs, i, cur) ==
    LET tagged == [k \in DOMAIN segs[i] \cup {"speaker"} |->
                      IF k = "speaker" THEN cur ELSE segs[i][k]]
    IN  [item |-> tagged, input |-> [segs EXCEPT ![i] = tagged]]
copy_and_tag(segs, i, cur) ==
    LET tagged == [k \in DOMAIN segs[i] \cup {"speaker"} |->
                      IF k = "speaker" THEN cur ELSE segs[i][k]]
    IN  [item |-> tagged, input |-> segs]

RECURSIVE detect_loop(_, _, _, _, _)
\* for i, segment in enumerate(segments): ...
detect_loop(segs, mp, i, current_speaker, out) ==
    IF i > Len(segs) THEN [ret |-> out, input |-> segs]
    ELSE LET cur == IF i > 1 /\ speaker_change(segs, i, mp)
                    THEN current_speaker + 1 ELSE current_speaker
             t   == copy_and_tag(segs, i, cur)
         IN  detect_loop(t.input, mp, i + 1, cur, Append(out, t.item))

\* if not segments: return []; current_speaker = 1; the loop; return
detect_speakers(segs, mp) ==
    IF segs = <<>> THEN [ret |-> <<>>, input |-> segs]
    ELSE detect_loop(segs, mp, 1, 1, <<>>)

SpkInit ==
    /\ StreamInit
    /\ BatchIdle
    /\ segments \in SeqsUpTo(SegmentSet, MaxSegs) \cup {ExampleSegments}
    /\ min_pause \in (0..MaxPause) \cup ExamplePauses
    /\ speaker_segments = <<>>
    /\ d_pc = "idle"

\* speaker_segments = self.detect_speakers(segments, min_pause)
DetectSpeakers ==
    /\ d_pc = "idle"
    /\ LET r == detect_speakers(segments, min_pause)
       IN  /\ speaker_segments' = r.ret
           /\ segments' = r.input
    /\ d_pc' = "returned"
    /\ UNCHANGED min_pause
    /\ UNCHANGED <<stream_vars, batch_vars>>

SpkNext == DetectSpeakers

SpecSpk == SpkInit /\ [][SpkNext]_vars

----------------------------------------------------------------------------
(* BatchMP4Processor.process_files, with MP4TranscriptionApp.process_mp4   *)
(* and save_transcript, which it calls for every file.                     *)
(*                                                                         *)
(* One thread.  b_pc is the position in the call chain; an exception in    *)
(* flight is the variable exc, carrying str(e).  The output file of a call *)
(* is named after the MP4 and the current second, so every call writes a   *)
(* path of its own: report is the file at the path of the call in          *)
(* progress.  The temporary WAV is named after the MP4's stem; it is       *)
(* identified with the MP4 path here.                                      *)

\* longest file_paths of the bounded input space
MaxFiles == 2

Files == {"a.mp4", "b.mp4"}

\* detect_speakers(self, segments, min_pause=2.0), in half seconds
default_min_pause == 4

\* result['segments'] of the bounded input space
BatchResults == {<<>>, ExampleSegments}

\* format_timestamp(seconds): int() truncates, then divmod by 3600 and by 60
format_timestamp(t) ==
    LET total_seconds == t \div 2
        remainder     == total_seconds % 3600
    IN  <<total_seconds \div 3600, remainder \div 60, remainder % 60>>

\* segment.get('speaker', '?')
get_speaker(segment) ==
    IF "speaker" \in DOMAIN segment THEN segment.speaker ELSE 0

\* The text of one detail line, as the sequence of its fields.
AlwaysLabel(segment, ts, sp) ==
    LET range == [field |-> "range",
                  start |-> format_timestamp(segment.start),
                  end   |-> format_timestamp(segment.end)]
        label == [field |-> "speaker", id |-> get_speaker(segment)]
        text  == [field |-> "text", text |-> segment.text]
    IN  (IF ts THEN <<range>> ELSE <<>>) \o (IF sp THEN <<label>> ELSE <<>>)
            \o <<text>>
format_line(segment, ts, sp) ==
    LET range == [field |-> "range",
                  start |-> format_timestamp(segment.start),
                  end   |-> format_timestamp(segment.end)]
        label == [field |-> "speaker", id |-> get_speaker(segment)]
        text  == [field |-> "text", text |-> segment.text]
    IN  IF ts /\ sp THEN <<range, label, text>>
        ELSE IF ts THEN <<range, text>>
        ELSE <<text>>

\* f.write(...) on the open report
report_write(r, entry) == [r EXCEPT !.content = Append(@, entry)]

BatchInit ==
    /\ StreamInit
    /\ SpkIdle
    /\ BatchFresh
    /\ file_paths \in SeqsUpTo(Files, MaxFiles)
    /\ include_speakers \in BOOLEAN
    /\ include_timestamps \in BOOLEAN
    /\ keep_audio \in BOOLEAN
    /\ b_pc = "for"

batch_args == <<file_paths, include_speakers, include_timestamps, keep_audio>>

\* raise: the error of the file in progress with its str(e)
Raise(reason) ==
    /\ exc' = reason
    /\ raised' = Append(raised, [i |-> loop_i, reason |-> reason])

\* for i, mp4_path in enumerate(file_paths, 1): try: self.app.process_mp4(...)
ForNext ==
    /\ b_pc = "for"
    /\ loop_i < Len(file_paths)
    /\ loop_i' = loop_i + 1
    /\ attempted' = Append(attempted, file_paths[loop_i + 1])
    /\ audio_path' = "none"
    /\ result' = <<>>
    /\ report_segments' = <<>>
    /\ seg_k' = 0
    /\ report' = NoReport
    /\ b_pc' = "exists"
    /\ UNCHANGED <<batch_args, processed_files, failed_files, exc, temp_audio,
                   summary, raised>>
    /\ UNCHANGED <<stream_vars, spk_vars>>

\* the for loop is exhausted
ForEnd ==
    /\ b_pc = "for"
    /\ loop_i = Len(file_paths)
    /\ b_pc' = "summary"
    /\ UNCHANGED <<batch_args, loop_i, processed_files, failed_files, exc,
                   audio_path, temp_audio, result, report_segments, seg_k,
                   report, summary, attempted, raised>>
    /\ UNCHANGED <<stream_vars, spk_vars>>

\* process_mp4: os.path.exists(mp4_path) is true; audio_path = None
PExists ==
    /\ b_pc = "exists"
    /\ audio_path' = "none"
    /\ b_pc' = "extract"
    /\ UNCHANGED <<batch_args, loop_i, processed_files, failed_files, exc,
                   temp_audio, result, report_segments, seg_k, report, summary,
                   attempted, raised>>
    /\ UNCHANGED <<stream_vars, spk_vars>>

\* process_mp4: raise FileNotFoundError, before the try statement
PNotFound ==
    /\ b_pc = "exists"
    /\ Raise("not_found")
    /\ b_pc' = "except"
    /\ UNCHANGED <<batch_args, loop_i, processed_files, failed_files,
                   audio_path, temp_audio, result, report_segments, seg_k,
                   report, summary, attempted>>
    /\ UNCHANGED <<stream_vars, spk_vars>>

\* audio_path = self.extract_audio_from_mp4(mp4_path) returns
ExtractOk ==
    /\ b_pc = "extract"
    /\ temp_audio' = temp_audio \cup {file_paths[loop_i]}
    /\ audio_path' = file_paths[loop_i]
    /\ b_pc' = "transcribe"
    /\ UNCHANGED <<batch_args, loop_i, processed_files, failed_files, exc,
                   result, report_segments, seg_k, report, summary, attempted,
                   raised>>
    /\ UNCHANGED <<stream_vars, spk_vars>>

\* extract_audio_from_mp4 raises (logged, re-raised): process_mp4's
\* audio_path is still None; write_audiofile may have created the file
ExtractFail ==
    /\ b_pc = "extract"
    /\ \E created \in BOOLEAN :
          temp_audio' = IF created THEN temp_audio \cup {file_paths[loop_i]}
                        ELSE temp_audio
    /\ Raise("extract")
    /\ b_pc' = "finally"
    /\ UNCHANGED <<batch_args, loop_i, processed_files, failed_files,
                   audio_path, result, report_segments, seg_k, report, summary,
                   attempted>>
    /\ UNCHANGED <<stream_vars, spk_vars>>

\* result = self.transcribe_with_timestamps(audio_path, language) returns
TranscribeOk ==
    /\ b_pc = "transcribe"
    /\ result' \in BatchResults
    /\ b_pc' = "save_open"
    /\ UNCHANGED <<batch_args, loop_i, processed_files, failed_files, exc,
                   audio_path, temp_audio, report_segments, seg_k, report,
                   summary, attempted, raised>>
    /\ UNCHANGED <<stream_vars, spk_vars>>

\* transcribe_with_timestamps raises (logged, re-raised)
TranscribeFail ==
    /\ b_pc = "transcribe"
    /\ Raise("transcribe")
    /\ b_pc' = "finally"
    /\ UNCHANGED <<batch_args, loop_i, processed_files, failed_files,
                   audio_path, temp_audio, result, report_segments, seg_k,
                   report, summary, attempted>>
    /\ UNCHANGED <<stream_vars, spk_vars>>

\* save_transcript: with open(output_file, 'w', encoding='utf-8') as f
SaveOpen ==
    /\ b_pc = "save_open"
    /\ report' = [exists |-> TRUE, content |-> <<>>]
    /\ b_pc' = "save_header"
    /\ UNCHANGED <<batch_args, loop_i, processed_files, failed_files, exc,
                   audio_path, temp_audio, result, report_segments, seg_k,
                   summary, attempted, raised>>
    /\ UNCHANGED <<stream_vars, spk_vars>>

\* open raises: no file is created
SaveOpenFail ==
    /\ b_pc = "save_open"
    /\ Raise("save")
    /\ b_pc' = "finally"
    /\ UNCHANGED <<batch_args, loop_i, processed_files, failed_files,
                   audio_path, temp_audio, result, report_segments, seg_k,
                   report, summary, attempted>>
    /\ UNCHANGED <<stream_vars, spk_vars>>

\* the header writes; segments = result['segments'];
\* if include_speakers: segments = self.detect_speakers(segments)
SaveHeader ==
    /\ b_pc = "save_header"
    /\ report' = report_write(report, [kind |-> "header", line |-> <<>>])
    /\ LET d == detect_speakers(result, default_min_pause)
       IN  IF include_speakers
           THEN report_segments' = d.ret /\ result' = d.input
           ELSE report_segments' = result /\ result' = result
    /\ b_pc' = "save_full"
    /\ UNCHANGED <<batch_args, loop_i, processed_files, failed_files, exc,
                   audio_path, temp_audio, seg_k, summary, attempted, raised>>
    /\ UNCHANGED <<stream_vars, spk_vars>>

\* the full text and the heading of the detail section
SaveFullText ==
    /\ b_pc = "save_full"
    /\ report' = report_write(report, [kind |-> "full_text", line |-> <<>>])
    /\ seg_k' = 1
    /\ b_pc' = "save_detail"
    /\ UNCHANGED <<batch_args, loop_i, processed_files, failed_files, exc,
                   audio_path, temp_audio, result, report_segments, summary,
                   attempted, raised>>
    /\ UNCHANGED <<stream_vars, spk_vars>>

\* for segment in segments: one f.write of the detail line
SaveDetail ==
    /\ b_pc = "save_detail"
    /\ seg_k <= Len(report_segments)
    /\ report' = report_write(report,
                     [kind |-> "detail",
                      line |-> format_line(report_segments[seg_k],
                                           include_timestamps, include_speakers)])
    /\ seg_k' = seg_k + 1
    /\ UNCHANGED <<batch_args, loop_i, processed_files, failed_files, b_pc, exc,
                   audio_path, temp_audio, result, report_segments, summary,
                   attempted, raised>>
    /\ UNCHANGED <<stream_vars, spk_vars>>

\* the statistics, the end of the with block, return output_file
SaveStats ==
    /\ b_pc = "save_detail"
    /\ seg_k > Len(report_segments)
    /\ report' = report_write(report, [kind |-> "stats", line |-> <<>>])
    /\ b_pc' = "finally"
    /\ UNCHANGED <<batch_args, loop_i, processed_files, failed_files, exc,
                   audio_path, temp_audio, result, report_segments, seg_k,
                   summary, attempted, raised>>
    /\ UNCHANGED <<stream_vars, spk_vars>>

\* an f.write raises: the with block closes the file with what was written
\* so far, the error is logged and re-raised
SaveWriteFail ==
    /\ b_pc \in {"save_header", "save_full", "save_detail"}
    /\ Raise("save")
    /\ b_pc' = "finally"
    /\ UNCHANGED <<batch_args, loop_i, processed_files, failed_files,
                   audio_path, temp_audio, result, report_segments, seg_k,
                   report, summary, attempted>>
    /\ UNCHANGED <<stream_vars, spk_vars>>

\* if audio_path and os.path.exists(audio_path) and not keep_audio
must_remove == audio_path # "none" /\ audio_path \in temp_audio /\ ~keep_audio

\* where process_mp4 leaves for: its return or the except clause
after_finally == IF exc = "none" THEN "returned" ELSE "except"

\* finally: os.remove(audio_path)
FinallyRemove ==
    /\ b_pc = "finally"
    /\ must_remove
    /\ temp_audio' = temp_audio \ {audio_path}
    /\ b_pc' = after_finally
    /\ UNCHANGED <<batch_args, loop_i, processed_files, failed_files, exc,
                   audio_path, result, report_segments, seg_k, report, summary,
                   attempted, raised>>
    /\ UNCHANGED <<stream_vars, spk_vars>>

\* finally: os.remove raises, which is only warned about
FinallyRemoveFails ==
    /\ b_pc = "finally"
    /\ must_remove
    /\ b_pc' = after_finally
    /\ UNCHANGED <<batch_args, loop_i, processed_files, failed_files, exc,
                   audio_path, temp_audio, result, report_segments, seg_k,
                   report, summary, attempted, raised>>
    /\ UNCHANGED <<stream_vars, spk_vars>>

\* finally: the condition is false, nothing is removed
FinallySkip ==
    /\ b_pc = "finally"
    /\ ~must_remove
    /\ b_pc' = after_finally
    /\ UNCHANGED <<batch_args, loop_i, processed_files, failed_files, exc,
                   audio_path, temp_audio, result, report_segments, seg_k,
                   report, summary, attempted, raised>>
    /\ UNCHANGED <<stream_vars, spk_vars>>

\* self.processed_files.append((mp4_path, output_file))
AppendProcessed ==
    /\ b_pc = "returned"
    /\ processed_files' = Append(processed_files, <<file_paths[loop_i], loop_i>>)
    /\ b_pc' = "for"
    /\ UNCHANGED <<batch_args, loop_i, failed_files, exc, audio_path,
                   temp_audio, result, report_segments, seg_k, report, summary,
                   attempted, raised>>
    /\ UNCHANGED <<stream_vars, spk_vars>>

\* the exception leaves process_files
FailureAborts ==
    /\ b_pc = "except"
    /\ b_pc' = "crashed"
    /\ UNCHANGED <<batch_args, loop_i, processed_files, failed_files, exc,
                   audio_path, temp_audio, result, report_segments, seg_k,
                   report, summary, attempted, raised>>
    /\ UNCHANGED <<stream_vars, spk_vars>>
\* except Exception as e: self.failed_files.append((mp4_path, str(e)))
AppendFailed ==
    /\ b_pc = "except"
    /\ failed_files' = Append(failed_files, <<file_paths[loop_i], exc>>)
    /\ exc' = "none"
    /\ b_pc' = "for"
    /\ UNCHANGED <<batch_args, loop_i, processed_files, audio_path, temp_audio,
                   result, report_segments, seg_k, report, summary, attempted,
                   raised>>
    /\ UNCHANGED <<stream_vars, spk_vars>>

\* self.print_summary(total_duration)
PrintSummary ==
    /\ b_pc = "summary"
    /\ summary' = [printed   |-> TRUE,
                   success   |-> Len(processed_files),
                   failure   |-> Len(failed_files),
                   succeeded |-> processed_files,
                   failed    |-> failed_files]
    /\ b_pc' = "done"
    /\ UNCHANGED <<batch_args, loop_i, processed_files, failed_files, exc,
                   audio_path, temp_audio, result, report_segments, seg_k,
                   report, attempted, raised>>
    /\ UNCHANGED <<stream_vars, spk_vars>>

BatchNext ==
    \/ ForNext \/ ForEnd
    \/ PExists \/ PNotFound
    \/ ExtractOk \/ ExtractFail
    \/ TranscribeOk \/ TranscribeFail
    \/ SaveOpen \/ SaveOpenFail
    \/ SaveHeader \/ SaveFullText \/ SaveDetail \/ SaveStats \/ SaveWriteFail
    \/ FinallyRemove \/ FinallyRemoveFails \/ FinallySkip
    \/ AppendProcessed \/ AppendFailed
    \/ PrintSummary

SpecBatch == BatchInit /\ [][BatchNext]_vars

(* A BatchMP4Processor that is used again: process_files is a method of   *)
(* the object, and processed_files and failed_files are set in __init__    *)
(* only.                                                                   *)

\* most entries the two lists of one processor hold in the bounded space
MaxRecorded == 3

\* processor.process_files(file_paths, ...) once more, after a call returned
ProcessFilesAgain ==
    /\ b_pc = "done"
    /\ \E fp \in SeqsUpTo(Files, MaxFiles) :
          /\ Len(processed_files) + Len(failed_files) + Len(fp) <= MaxRecorded
          /\ file_paths' = fp
    /\ include_speakers' \in BOOLEAN
    /\ include_timestamps' \in BOOLEAN
    /\ keep_audio' \in BOOLEAN
    /\ loop_i' = 0
    /\ audio_path' = "none"
    /\ result' = <<>>
    /\ report_segments' = <<>>
    /\ seg_k' = 0
    /\ report' = NoReport
    /\ summary' = NoSummary
    /\ attempted' = <<>>
    /\ raised' = <<>>
    /\ b_pc' = "for"
    /\ UNCHANGED <<processed_files, failed_files, exc, temp_audio>>
    /\ UNCHANGED <<stream_vars, spk_vars>>

ReuseNext ==
    \/ ForNext \/ ForEnd
    \/ PExists \/ PNotFound
    \/ ExtractOk \/ ExtractFail
    \/ TranscribeOk \/ TranscribeFail
    \/ SaveOpen \/ SaveOpenFail
    \/ SaveHeader \/ SaveFullText \/ SaveDetail \/ SaveStats \/ SaveWriteFail
    \/ FinallyRemove \/ FinallyRemoveFails \/ FinallySkip
    \/ AppendProcessed \/ AppendFailed
    \/ PrintSummary
    \/ ProcessFilesAgain

SpecReuse == BatchInit /\ [][ReuseNext]_vars

----------------------------------------------------------------------------
(* Properties.                                                             *)

Count(f, kind) == Cardinality({i \in DOMAIN f : f[i].kind = kind})
LastOf(q) == q[Len(q)]

\* C1: every frame the capture callback puts on the queue is dequeued before
\* the worker exits: once the worker has terminated the queue holds no frame.
C1_NoFrameLeftBehind ==
    w_pc = "done" => audio_queue = <<>>

\* C2: when the worker has exited with less than a full window in its buffer,
\* the remaining audio was handed to the ASR engine in one final call if it is
\* at least 0.5 s long, and was handed to no call if it is shorter.
C2_FinalCallOnRemainder ==
    (w_pc = "done" /\ BufLen(audio_buffer) < buffer_size)
        => IF too_short(audio_buffer)
           THEN \A i \in DOMAIN asr_calls : asr_calls[i].window # audio_buffer
           ELSE asr_calls # <<>> /\ LastOf(asr_calls).window = audio_buffer

\* a bytes object that is one contiguous span of the captured stream
Contiguous(b) ==
    \A k \in 1..(Len(b) - 1) :
        /\ b[k].hi = frame_bytes
        /\ b[k + 1].lo = 0
        /\ b[k + 1].id = b[k].id + 1

\* C3: frames are dequeued in the order they were enqueued (frame numbers
\* 1, 2, 3, ...), every window is a contiguous span of the stream and windows
\* follow each other in stream order, transcript lines stand in the file in
\* the order of their ASR calls, and at most one ASR call is in progress.
C3_InOrder ==
    /\ \A i \in DOMAIN dequeued : dequeued[i] = i
    /\ \A i \in DOMAIN asr_calls : Contiguous(asr_calls[i].window)
    /\ \A i, j \in DOMAIN asr_calls :
           i < j => /\ LastOf(asr_calls[i].window).id <= LastOf(asr_calls[j].window).id
                    /\ Head(asr_calls[i].window).id <= Head(asr_calls[j].window).id
    /\ \A i, j \in DOMAIN out_file :
           (i < j /\ out_file[i].kind = "line" /\ out_file[j].kind = "line")
               => out_file[i].call < out_file[j].call
    /\ Cardinality({i \in DOMAIN asr_calls : asr_calls[i].result = "pending"}) <= 1
    /\ (w_pc = "asr") = (asr_calls # <<>> /\ LastOf(asr_calls).result = "pending")

\* two transcript lines are in the file, written while two frames were queued
C3_Witness ==
    /\ \E i, j \in DOMAIN out_file :
           i < j /\ out_file[i].kind = "line" /\ out_file[j].kind = "line"
    /\ Len(audio_queue) = 2

\* C4: every window handed to the ASR engine holds exactly buffer_size bytes
\* (target_window_samples samples), and when the worker is back at the head of
\* its loop after the call the buffer holds exactly overlap bytes.
C4_ExactWindow ==
    [][ /\ (Len(asr_calls') = Len(asr_calls) + 1)
              => BufLen(LastOf(asr_calls').window) = buffer_size
        /\ (w_pc \in {"asr", "write"} /\ w_pc' = "while")
              => BufLen(audio_buffer') = overlap ]_vars

\* C5: when an ASR call raises, the worker goes back to the head of its loop,
\* nothing is written to the file, the buffer becomes the last overlap bytes
\* of the failed window, the session's flag and controller are untouched; and
\* after a failure a buffer that fills again is handed to the engine again.
\* The worker ends only when recording has been stopped.
C5_AsrFailureNotFatal ==
    [][ /\ (w_pc = "asr" /\ asr_errors' = asr_errors + 1)
              => /\ w_pc' = "while"
                 /\ out_file' = out_file
                 /\ BufLen(audio_buffer') = overlap
                 /\ LastOf(audio_buffer') = LastOf(audio_buffer)
                 /\ Contiguous(audio_buffer')
                 /\ is_recording' = is_recording
                 /\ m_pc' = m_pc
        /\ (asr_errors > 0 /\ w_pc = "body" /\ w_pc' # "body"
              /\ BufLen(audio_buffer') >= buffer_size)
              => /\ w_pc' = "asr"
                 /\ Len(asr_calls') = Len(asr_calls) + 1
        /\ (w_pc # "done" /\ w_pc' = "done") => ~is_recording ]_vars

\* an ASR call failed and a later window was transcribed
C5_Witness ==
    \E i, j \in DOMAIN asr_calls :
        /\ i < j
        /\ asr_calls[i].result = "error"
        /\ asr_calls[j].result = "text"
        /\ asr_calls[j].write = "ok"

\* C6: when the append of a recognized chunk fails, the worker goes back to
\* the head of its loop with the session untouched; after a failure the worker
\* still takes a frame from a non-empty queue in each pass, still goes to the
\* write whenever the engine returns text, and ends only when recording has
\* been stopped and the queue is empty.
C6_WriteFailureNotFatal ==
    [][ /\ (w_pc = "write" /\ write_errors' = write_errors + 1)
              => /\ w_pc' = "while"
                 /\ is_recording' = is_recording
                 /\ m_pc' = m_pc
                 /\ audio_queue' = audio_queue
        /\ (write_errors > 0 /\ w_pc = "body" /\ w_pc' # "body" /\ audio_queue # <<>>)
              => /\ dequeued' = Append(dequeued, Head(audio_queue))
                 /\ audio_queue' = Tail(audio_queue)
        /\ (write_errors > 0 /\ w_pc = "asr" /\ w_pc' # "asr"
              /\ LastOf(asr_calls').result = "text")
              => w_pc' = "write"
        /\ (w_pc # "done" /\ w_pc' = "done")
              => ~is_recording /\ audio_queue = <<>> ]_vars

\* a write failed, and the chunk recognized next was written
C6_Witness ==
    \E i, j \in DOMAIN asr_calls :
        /\ i < j
        /\ asr_calls[i].write = "fail"
        /\ asr_calls[j].write = "ok"
        /\ Len(dequeued) > LastOf(asr_calls[i].window).id

SessionOver == w_pc # "idle" /\ m_pc \in {"done", "error", "killed"}

\* C7: a session that was stopped twice ends like one stopped once, with
\* exactly one footer in the output file.
C7_StopTwiceOneFooter ==
    (interrupts >= 2 /\ SessionOver) => Count(out_file, "footer") = 1

\* C8: when a session is over, the file holds exactly one header, as its first
\* entry, and exactly one footer, whichever way the session ended.
C8_HeaderAndFooterOnce ==
    SessionOver => /\ Count(out_file, "header") = 1
                   /\ Head(out_file) = Header
                   /\ Count(out_file, "footer") = 1

\* C9: the first segment gets speaker 1; segment i > 1 gets the previous id
\* plus one if segments[i].start - segments[i-1].end >= min_pause and the
\* previous id otherwise; the ids never decrease; [(0,1),(1.5,2),(5,6)] gives
\* [1,1,2] for min_pause 2.0 and [1,1,1] for min_pause 10.0.
C9_SpeakerIds ==
    d_pc = "returned" =>
        LET out == speaker_segments
            n   == Len(out)
        IN  /\ n = Len(segments)
            /\ n > 0 => out[1].speaker = 1
            /\ \A i \in 2..n :
                   out[i].speaker =
                       IF segments[i].start - segments[i - 1].end >= min_pause
                       THEN out[i - 1].speaker + 1 ELSE out[i - 1].speaker
            /\ \A i, j \in 1..n : i <= j => out[i].speaker <= out[j].speaker
            /\ (segments = ExampleSegments /\ min_pause = 4)
                   => [i \in 1..n |-> out[i].speaker] = <<1, 1, 2>>
            /\ (segments = ExampleSegments /\ min_pause = 20)
                   => [i \in 1..n |-> out[i].speaker] = <<1, 1, 1>>

\* the call returned on an input whose pause equals min_pause exactly
C9_Witness ==
    /\ d_pc = "returned"
    /\ Len(segments) = 3
    /\ min_pause > 0
    /\ segments[2].start - segments[1].end = min_pause
    /\ segments[3].start - segments[2].end < min_pause
    /\ speaker_segments[3].speaker = 2

\* C10: the call leaves the caller's list as it was, no input segment gains a
\* speaker key, and the returned list has the input's length, its segment i
\* having the start, end and text of input segment i; the empty list gives the
\* empty list and a one-segment list gives speaker 1.
C10_InputUntouched ==
    [][ (d_pc = "idle" /\ d_pc' = "returned")
          => /\ Len(segments') = Len(segments)
             /\ \A i \in DOMAIN segments' :
                    /\ DOMAIN segments'[i] = {"start", "end", "text"}
                    /\ segments'[i].start = segments[i].start
                    /\ segments'[i].end = segments[i].end
                    /\ segments'[i].text = segments[i].text
             /\ Len(speaker_segments') = Len(segments)
             /\ \A i \in DOMAIN speaker_segments' :
                    /\ DOMAIN speaker_segments'[i] = {"start", "end", "text", "speaker"}
                    /\ speaker_segments'[i].start = segments[i].start
                    /\ speaker_segments'[i].end = segments[i].end
                    /\ speaker_segments'[i].text = segments[i].text
             /\ (segments = <<>>) => (speaker_segments' = <<>>)
             /\ (Len(segments) = 1) => (speaker_segments'[1].speaker = 1) ]_vars

\* the call returned on a list of segments that differ in every field
C10_Witness ==
    /\ d_pc = "returned"
    /\ Len(segments) = 2
    /\ Len(speaker_segments) = 2
    /\ segments[1].text # segments[2].text
    /\ segments[1].start # segments[2].start
    /\ segments[1].end # segments[2].end

\* process_files is over: it returned, or an exception left it
BatchOver == b_pc \in {"done", "crashed"}

\* C11: in a batch in which process_mp4 raised for exactly one file k, once
\* process_files is over every file of the batch has been attempted, in
\* order, and the summary has been printed with one failure, carrying file
\* k's path and the error's text, and Len(file_paths) - 1 successes.
C11_FailureIsolated ==
    (BatchOver /\ Len(raised) = 1) =>
        LET k == raised[1]
        IN  /\ attempted = file_paths
            /\ summary.printed
            /\ summary.failure = 1
            /\ summary.failed = << <<file_paths[k.i], k.reason>> >>
            /\ summary.success = Len(file_paths) - 1
            /\ \A n \in DOMAIN file_paths :
                   n # k.i => \E m \in DOMAIN summary.succeeded :
                                  summary.succeeded[m] = <<file_paths[n], n>>

\* the first file of a batch of two or more failed, the summary is printed
C11_Witness ==
    /\ b_pc = "done"
    /\ Len(file_paths) >= 2
    /\ Len(raised) = 1
    /\ raised[1].i = 1
    /\ summary.printed

\* C12: whenever an error raised inside save_transcript is on its way to
\* the caller or has reached it, there is no file at the report's final
\* path.
C12_ReportAllOrNothing ==
    (b_pc \in {"finally", "except"} /\ exc = "save") => ~report.exists

HasField(line, f) == \E n \in DOMAIN line : line[n].field = f

\* C13: every detail line of a report holds the [start - end] range iff
\* include_timestamps is set, the speaker label iff include_speakers is
\* set, and the segment's text always.
C13_FieldsToggleIndependently ==
    \A n \in DOMAIN report.content :
        report.content[n].kind = "detail" =>
            /\ (HasField(report.content[n].line, "range") <=> include_timestamps)
            /\ (HasField(report.content[n].line, "speaker") <=> include_speakers)
            /\ HasField(report.content[n].line, "text")

\* path is the first component of a pair of the list lst
Listed(lst, path) == \E m \in DOMAIN lst : lst[m][1] = path

\* C21: files are processed one at a time in input order (the paths
\* process_mp4 was called with are file_paths[1..i], and nothing of file i
\* is recorded before file i + 1 is begun); and whenever a call of
\* process_files has returned, every path of file_paths is in exactly one of
\* processed_files and failed_files and the two counts of the summary sum
\* to len(file_paths).
C21_OneListPerPath ==
    /\ b_pc # "idle" =>
          /\ loop_i <= Len(file_paths)
          /\ attempted = SubSeq(file_paths, 1, loop_i)
    /\ b_pc = "done" =>
          /\ \A n \in DOMAIN file_paths :
                 Listed(processed_files, file_paths[n])
                     # Listed(failed_files, file_paths[n])
          /\ summary.success + summary.failure = Len(file_paths)

\* C22: when process_mp4 was called with keep_audio false and has returned
\* or raised, the temporary audio file of that MP4 does not exist.
C22_TempAudioRemoved ==
    (b_pc \in {"returned", "except"} /\ ~keep_audio)
        => file_paths[loop_i] \notin temp_audio

\* C14: once recording has been stopped with the worker running, the worker
\* eventually terminates; it leaves its loop only with the queue empty, and it
\* does so whatever part of a window its buffer holds.
C14_WorkerTerminates ==
    /\ (w_pc # "idle" /\ ~is_recording) ~> (w_pc = "done")
    /\ [][(w_pc # "done" /\ w_pc' = "done") => audio_queue = <<>>]_vars

\* the worker has ended after a stop, having consumed every queued frame, with
\* a partial window left in its buffer
C14_Witness ==
    /\ w_pc = "done"
    /\ m_pc \in {"stop_stream", "join", "footer", "done"}
    /\ dequeued # <<>>
    /\ Len(dequeued) = frames_made
    /\ BufLen(audio_buffer) > 0
    /\ BufLen(audio_buffer) < buffer_size

\* C15: the footer is written only when the worker has ended, and no
\* transcript line is appended to a file that holds the footer.
C15_FooterAfterWorker ==
    [][ /\ (Count(out_file', "footer") > Count(out_file, "footer")) => w_pc = "done"
        /\ (Count(out_file', "line") > Count(out_file, "line"))
              => Count(out_file, "footer") = 0 ]_vars

\* C16: no window is dispatched twice: between two consecutive ASR calls the
\* buffer was cut to the overlap, so the later window does not start where the
\* earlier one started.
C16_WindowDispatchedOnce ==
    \A i \in DOMAIN asr_calls :
        (i + 1) \in DOMAIN asr_calls
            => Head(asr_calls[i + 1].window) # Head(asr_calls[i].window)

RECURSIVE TakeBytes(_, _)
\* b[:k] for 0 <= k <= len(b)
TakeBytes(b, k) ==
    IF k = 0 \/ b = <<>> THEN <<>>
    ELSE LET h == Head(b)
             l == h.hi - h.lo
         IN  IF l <= k THEN <<h>> \o TakeBytes(Tail(b), k - l)
             ELSE <<[h EXCEPT !.hi = h.lo + k]>>

\* C17: every window but the first begins with the last overlap bytes (25% of
\* the target window) of the window dispatched before it.
C17_WindowStartsWithTail ==
    \A i \in DOMAIN asr_calls :
        (i + 1) \in DOMAIN asr_calls
            => TakeBytes(asr_calls[i + 1].window, overlap)
                   = DropBytes(asr_calls[i].window,
                               BufLen(asr_calls[i].window) - overlap)

RECURSIVE FreshAudio(_, _)
\* the windows from number i on, each but the first without its first overlap
\* bytes, one after the other
FreshAudio(calls, i) ==
    IF i > Len(calls) THEN <<>>
    ELSE (IF i = 1 THEN calls[i].window ELSE DropBytes(calls[i].window, overlap))
             \o FreshAudio(calls, i + 1)

\* C18: the windows, each without its leading overlap, put one after the other
\* are a prefix of the consumed stream: the frames 1, 2, 3, ... whole and in
\* order, nothing skipped and nothing twice.
C18_WindowsCoverStream ==
    LET fresh == FreshAudio(asr_calls, 1)
    IN  /\ \A k \in DOMAIN fresh : fresh[k] = [id |-> k, lo |-> 0, hi |-> frame_bytes]
        /\ \A k \in DOMAIN fresh : k <= Len(dequeued) /\ dequeued[k] = k

\* C19: a callback that has decided to enqueue can always complete its put,
\* whatever the worker is doing and however long the queue is; an ASR call is
\* started by a step of the worker only and is pending only inside the worker.
C19_CaptureNeverBlocks ==
    /\ [](cb_pc = "put" => ENABLED CbPut)
    /\ [][ /\ (Len(asr_calls') > Len(asr_calls))
                 => (w_pc = "body" /\ w_pc' = "asr" /\ cb_pc' = cb_pc)
           /\ (cb_pc' # cb_pc) => (asr_calls' = asr_calls /\ w_pc' = w_pc) ]_vars

\* a put is about to run while the worker is inside an ASR call and the queue
\* already holds a frame
C19_Witness ==
    /\ cb_pc = "put"
    /\ w_pc = "asr"
    /\ Len(audio_queue) = MaxQueue - 1
    /\ Len(audio_queue) > 0

\* C20: every audio handed to the ASR engine is non-empty and at least 0.5 s
\* long: its sample count, doubled, is at least sample_rate.
C20_AsrAudioLongEnough ==
    \A i \in DOMAIN asr_calls :
        /\ asr_calls[i].window # <<>>
        /\ 2 * BufLen(asr_calls[i].window) >= sample_rate * sample_width

\* two ASR calls were made, the second on a buffer that restarted from the
\* overlap tail
C20_Witness ==
    /\ Len(asr_calls) >= 2
    /\ BufLen(asr_calls[2].window) < 2 * buffer_size

====
